---- MODULE Spec2Model ----
(***************************************************************************)
(* The Telco churn notebook (Growth&Churn _Analysis_Telco-checkpoint.ipynb) *)
(* as a state machine: one action per code cell, executed top to bottom.    *)
(* A data frame is a set of column names and a sequence of rows; a row is a *)
(* function from column names to cell values.  Frames live in a heap so     *)
(* that .copy() (a fresh object) and a plain binding (an alias) differ.     *)
(***************************************************************************)
EXTENDS Integers, Sequences, FiniteSets, TLC

\* ------------------------------------------------------------------ bounds
\* rows of an input table whose attribute columns vary
MaxRows == 3
\* rows of an input table in which only Churn varies
MaxLabelRows == 8
\* largest tenure (months) of an input row
MaxTenure == 2

\* ------------------------------------------------------- cell values, rates
\* a missing value of an object (string) column, and of a numeric column
NaN == "NaN"
nan == -1

isna(v) == v = NaN
isnan(x) == x = nan

RECURSIVE gcd(_, _)
gcd(a, b) == IF b = 0 THEN a ELSE gcd(b, a % b)

\* The quotient of two integer arrays' elements, as numpy computes it: x/0
\* raises nothing, 0/0 is NaN and x/0 is inf.  A finite quotient is kept as
\* a fraction in lowest terms.
NaNRate == [num |-> 0, den |-> 0]
InfRate == [num |-> 1, den |-> 0]
Raised == [num |-> -1, den |-> 0]
truediv_raising(n, d) ==
    IF d = 0 THEN Raised
    ELSE [num |-> n \div gcd(n, d), den |-> d \div gcd(n, d)]
truediv(n, d) ==
    IF d = 0 THEN (IF n = 0 THEN NaNRate ELSE InfRate)
    ELSE [num |-> n \div gcd(n, d), den |-> d \div gcd(n, d)]

\* ------------------------------------------------------------- data frames
Frame(cols, rows) == [columns |-> cols, rows |-> rows]
NoFrame == Frame({}, <<>>)
nrows(f) == Len(f.rows)
Index(f) == 1..Len(f.rows)
Series(f, c) == [i \in Index(f) |-> f.rows[i][c]]

\* df[c] = s : appends column c, or overwrites it when it exists
setitem(f, c, s) ==
    Frame(f.columns \cup {c},
          [i \in Index(f) |->
              [k \in f.columns \cup {c} |-> IF k = c THEN s[i] ELSE f.rows[i][k]]])

RECURSIVE where(_, _)
where(rows, mask) ==
    IF Len(rows) = 0 THEN <<>>
    ELSE (IF Head(mask) THEN <<Head(rows)>> ELSE <<>>)
         \o where(Tail(rows), Tail(mask))

\* df[mask] : the rows whose mask entry is true, in order
getitem(f, mask) == Frame(f.columns, where(f.rows, mask))

RECURSIVE sum(_)
sum(s) == IF Len(s) = 0 THEN 0
          ELSE (IF isnan(Head(s)) THEN 0 ELSE Head(s)) + sum(Tail(s))

\* 'count' counts the non-null entries of a column
count(s) == Cardinality({i \in DOMAIN s : ~isna(s[i])})
countnum(s) == Cardinality({i \in DOMAIN s : ~isnan(s[i])})

RECURSIVE sorted(_)
sorted(S) == IF S = {} THEN <<>>
             ELSE LET m == CHOOSE x \in S : \A y \in S : x <= y
                  IN  <<m>> \o sorted(S \ {m})

\* groupby(key): the observed key values, and the rows of one key
keys(f, key) == {f.rows[i][key] : i \in Index(f)}
group(f, key, k) == getitem(f, [i \in Index(f) |-> f.rows[i][key] = k])

\* ---------------------------------------------------------- the input table
InputColumns == {"customerID", "Churn", "tenure", "Contract", "InternetService",
                 "StreamingTV", "StreamingMovies", "SeniorCitizen", "MonthlyCharges"}

BaseRow == [customerID |-> "id", Churn |-> "No", tenure |-> 1,
            Contract |-> "One year", InternetService |-> "DSL",
            StreamingTV |-> "No", StreamingMovies |-> "No",
            SeniorCitizen |-> 0, MonthlyCharges |-> 50]

ChurnValues == {"Yes", "No"}

\* rows that vary in the columns the cohort cell reads
CohortRows == {[BaseRow EXCEPT !.customerID = c, !.Churn = ch, !.tenure = t] :
                  c \in {"id", NaN}, ch \in ChurnValues, t \in 0..MaxTenure}
\* rows that vary in the columns the funnel cell reads
FunnelRows == {[BaseRow EXCEPT !.InternetService = n, !.StreamingTV = tv,
                               !.StreamingMovies = mv, !.Churn = ch] :
                  n \in {"DSL", "No"}, tv \in {"Yes", "No"}, mv \in {"Yes", "No"},
                  ch \in ChurnValues}
\* rows that vary in the columns the experiment cells read
ContractRows == {[BaseRow EXCEPT !.Contract = k, !.Churn = ch] :
                  k \in {"Month-to-month", "One year"}, ch \in ChurnValues}
LabelRows == {[BaseRow EXCEPT !.Contract = "Month-to-month", !.Churn = ch] :
                  ch \in ChurnValues}

\* No cell depends on the order of the rows, so one table stands for each
\* multiset of rows: the rows in a fixed enumeration's order.
RECURSIVE Enum(_)
Enum(S) == IF S = {} THEN <<>>
           ELSE LET x == CHOOSE z \in S : TRUE IN <<x>> \o Enum(S \ {x})
TablesOf(R, n) ==
    LET e == Enum(R)
    IN  UNION {{[i \in 1..k |-> e[ix[i]]] :
                  ix \in {jx \in [1..k -> 1..Len(e)] :
                             \A i \in 1..k : i < k => jx[i] <= jx[i + 1]}} :
               k \in 0..n}

drop(row, c) == [k \in (DOMAIN row) \ {c} |-> row[k]]

\* what the URL serves: nothing, a table with every column, or a table that
\* lacks one column
Reachable(f) == [ok |-> TRUE, frame |-> f]
Unreachable == [ok |-> FALSE, frame |-> NoFrame]
Sources ==
    {Unreachable}
    \cup {Reachable(Frame(InputColumns, t)) :
            t \in TablesOf(CohortRows, MaxRows) \cup TablesOf(FunnelRows, MaxRows)
                  \cup TablesOf(ContractRows, MaxRows)
                  \cup TablesOf(LabelRows, MaxLabelRows)}
    \cup {Reachable(Frame(InputColumns \ {c}, <<drop(r, c)>>)) :
            r \in ContractRows, c \in InputColumns}

\* --------------------------------------------------------------- the cells
Cells == <<"imports", "load", "info", "churn", "cohort", "cohort_plot",
           "funnel", "funnel_plot", "assign", "effect", "ztest", "model">>

CellIndex(c) == CHOOSE i \in 1..Len(Cells) : Cells[i] = c
NextCell(c) == IF CellIndex(c) = Len(Cells) THEN "done" ELSE Cells[CellIndex(c) + 1]

\* an exception ends the run: no later cell executes
OnErrorContinue(c) == NextCell(c)
OnError(c) == "aborted"

NoTest == [sign |-> 0, sq |-> NaNRate, ran |-> FALSE]

VARIABLES pc, error, ran, source, heap, ref, cohort_data, funnel, grouped,
          grouped_effect, ztest, y, converged

vars == <<pc, error, ran, source, heap, ref, cohort_data, funnel, grouped,
          grouped_effect, ztest, y, converged>>

\* heap addresses of the three frames the notebook creates
DF == 1
MTM == 2
MTM_EFFECT == 3

df == heap[ref.df]
mtm == heap[ref.mtm]
mtm_effect == heap[ref.mtm_effect]

Init ==
    /\ pc = "imports"
    /\ error = "none"
    /\ ran = <<>>
    /\ source \in Sources
    /\ heap = [a \in {DF, MTM, MTM_EFFECT} |-> NoFrame]
    /\ ref = [df |-> 0, mtm |-> 0, mtm_effect |-> 0]
    /\ cohort_data = <<>>
    /\ funnel = <<>>
    /\ grouped = <<>>
    /\ grouped_effect = <<>>
    /\ ztest = NoTest
    /\ y = <<>>
    /\ converged = "unset"

\* the cell at pc ran and raised err ("none": it completed)
Finish(c, err) ==
    /\ pc' = IF err = "none" THEN NextCell(c) ELSE OnError(c)
    /\ error' = err
    /\ ran' = Append(ran, c)

\* Cell 1: the imports.  Whether scipy.stats exports proportions_ztest is
\* decided by the installed library, not by this repository: both outcomes.
Imports ==
    /\ pc = "imports"
    /\ \E found \in BOOLEAN :
          Finish("imports", IF found THEN "none" ELSE "ImportError")
    /\ UNCHANGED <<source, heap, ref, cohort_data, funnel, grouped,
                   grouped_effect, ztest, y, converged>>

\* Cell 2: pd.read_csv(url); no column is checked here
Load ==
    /\ pc = "load"
    /\ IF source.ok
       THEN /\ heap' = [heap EXCEPT ![DF] = source.frame]
            /\ ref' = [ref EXCEPT !.df = DF]
            /\ Finish("load", "none")
       ELSE /\ UNCHANGED <<heap, ref>>
            /\ Finish("load", "URLError")
    /\ UNCHANGED <<source, cohort_data, funnel, grouped, grouped_effect,
                   ztest, y, converged>>

\* Cell 3: shape, info(), isnull().sum(): display only
Info ==
    /\ pc = "info"
    /\ Finish("info", "none")
    /\ UNCHANGED <<source, heap, ref, cohort_data, funnel, grouped,
                   grouped_effect, ztest, y, converged>>

\* Cell 4: churn counts and two plots: reads Churn, Contract, tenure
Churn ==
    /\ pc = "churn"
    /\ Finish("churn", IF {"Churn", "Contract", "tenure"} \subseteq df.columns
                       THEN "none" ELSE "KeyError")
    /\ UNCHANGED <<source, heap, ref, cohort_data, funnel, grouped,
                   grouped_effect, ztest, y, converged>>

\* ------------------------------------------------------------ cohort cell
\* df['Churn'].map({'Yes': 1, 'No': 0}): any other value maps to NaN
FlagColumn == "Churn_flag"
churn_map(v) == IF v = "Yes" THEN 1 ELSE IF v = "No" THEN 0 ELSE nan

\* A month as year * 12 + (month - 1); reference_date 2020-02-01 is the first
\* instant of RefMonth.  pd.to_timedelta(unit='M') is tenure times the mean
\* month, 30.436875 days, in seconds.
RefMonth == 2020 * 12 + 1
SecondsPerMonth == 2629800
SecondsPerDay == 86400

IsLeap(yr) == (yr % 4 = 0 /\ yr % 100 # 0) \/ yr % 400 = 0
DaysInMonth(m) ==
    LET mo == (m % 12) + 1
        yr == m \div 12
    IN  IF mo \in {4, 6, 9, 11} THEN 30
        ELSE IF mo = 2 THEN (IF IsLeap(yr) THEN 29 ELSE 28)
        ELSE 31

\* signup_date, as seconds before reference_date
signup_date(tenure) == tenure * SecondsPerMonth

\* dt.to_period('M'): the month an instant falls in.  `start` is how many
\* seconds before reference_date month m begins.
RECURSIVE month_of(_, _, _)
month_of(before, m, start) ==
    IF before <= start THEN m
    ELSE month_of(before, m - 1, start + DaysInMonth(m - 1) * SecondsPerDay)
to_period(before) == month_of(before, RefMonth, 0)

\* groupby('signup_month').agg(total_customers=('customerID','count'),
\*                             retained=('Churn_flag', (x == 0).sum()))
total_customers(g) == count(Series(g, "customerID"))
retained(g) == Cardinality({i \in Index(g) : g.rows[i][FlagColumn] = 0})

cohort_agg(f) ==
    LET ks == sorted(keys(f, "signup_month"))
    IN  [j \in 1..Len(ks) |->
            LET g == group(f, "signup_month", ks[j])
            IN  [signup_month |-> ks[j],
                 total_customers |-> total_customers(g),
                 retained |-> retained(g),
                 retention_rate |-> truediv(retained(g), total_customers(g))]]

raises(rates) == \E i \in DOMAIN rates : rates[i] = Raised

\* Cell 5: the derived columns are appended to df in place, one statement at
\* a time; a missing column raises KeyError at the statement that reads it.
Cohort ==
    /\ pc = "cohort"
    /\ LET d0 == df
           d1 == setitem(d0, FlagColumn,
                         [i \in Index(d0) |-> churn_map(d0.rows[i]["Churn"])])
           d2 == setitem(d1, "signup_date",
                         [i \in Index(d1) |-> signup_date(d1.rows[i]["tenure"])])
           d3 == setitem(d2, "signup_month",
                         [i \in Index(d2) |-> to_period(d2.rows[i]["signup_date"])])
           cd == cohort_agg(d3)
       IN  IF "Churn" \notin d0.columns
           THEN /\ UNCHANGED <<heap, cohort_data>>
                /\ Finish("cohort", "KeyError")
           ELSE IF "tenure" \notin d0.columns
           THEN /\ heap' = [heap EXCEPT ![ref.df] = d1]
                /\ UNCHANGED cohort_data
                /\ Finish("cohort", "KeyError")
           ELSE IF "customerID" \notin d0.columns
           THEN /\ heap' = [heap EXCEPT ![ref.df] = d3]
                /\ UNCHANGED cohort_data
                /\ Finish("cohort", "KeyError")
           ELSE IF raises([j \in DOMAIN cd |-> cd[j].retention_rate])
           THEN /\ heap' = [heap EXCEPT ![ref.df] = d3]
                /\ UNCHANGED cohort_data
                /\ Finish("cohort", "ZeroDivisionError")
           ELSE /\ heap' = [heap EXCEPT ![ref.df] = d3]
                /\ cohort_data' = cd
                /\ Finish("cohort", "none")
    /\ UNCHANGED <<source, ref, funnel, grouped, grouped_effect, ztest, y,
                   converged>>

\* Cell 6: the retention plot: display only
CohortPlot ==
    /\ pc = "cohort_plot"
    /\ Finish("cohort_plot", "none")
    /\ UNCHANGED <<source, heap, ref, cohort_data, funnel, grouped,
                   grouped_effect, ztest, y, converged>>

\* ------------------------------------------------------------ funnel cell
has_internet(f) ==
    nrows(getitem(f, [i \in Index(f) |-> f.rows[i]["InternetService"] # "No"]))
streaming_of_internet(f) ==
    nrows(getitem(f, [i \in Index(f) |->
        /\ f.rows[i]["InternetService"] # "No"
        /\ (f.rows[i]["StreamingTV"] = "Yes" \/ f.rows[i]["StreamingMovies"] = "Yes")]))
streaming(f) ==
    nrows(getitem(f, [i \in Index(f) |->
        f.rows[i]["StreamingTV"] = "Yes" \/ f.rows[i]["StreamingMovies"] = "Yes"]))
still_active(f) ==
    nrows(getitem(f, [i \in Index(f) |-> f.rows[i][FlagColumn] = 0]))

Steps == <<"Signed Up", "Has Internet", "Uses Streaming", "Still Active">>

\* funnel['Conversion'] = funnel['Count'] / total_signed
Conversion_stepwise(Count, j) == truediv(Count[j], Count[IF j = 1 THEN 1 ELSE j - 1])
Conversion(Count, j) == truediv(Count[j], Count[1])

funnel_frame(f) ==
    LET total_signed == nrows(f)
        Count == <<total_signed, has_internet(f), streaming(f), still_active(f)>>
    IN  [j \in 1..4 |-> [Step |-> Steps[j], Count |-> Count[j],
                         Conversion |-> Conversion(Count, j)]]

\* Cell 7: four counts over the whole of df, each divided by the first
Funnel ==
    /\ pc = "funnel"
    /\ IF ~({"InternetService", "StreamingTV", "StreamingMovies", FlagColumn}
              \subseteq df.columns)
       THEN /\ UNCHANGED funnel
            /\ Finish("funnel", "KeyError")
       ELSE LET fn == funnel_frame(df)
            IN  IF raises([j \in DOMAIN fn |-> fn[j].Conversion])
                THEN /\ UNCHANGED funnel
                     /\ Finish("funnel", "ZeroDivisionError")
                ELSE /\ funnel' = fn
                     /\ Finish("funnel", "none")
    /\ UNCHANGED <<source, heap, ref, cohort_data, grouped, grouped_effect,
                   ztest, y, converged>>

\* Cell 8: the funnel bar plot: display only
FunnelPlot ==
    /\ pc = "funnel_plot"
    /\ Finish("funnel_plot", "none")
    /\ UNCHANGED <<source, heap, ref, cohort_data, funnel, grouped,
                   grouped_effect, ztest, y, converged>>

\* -------------------------------------------------------- experiment cells
\* .copy() returns a fresh object; binding without it would name the same one
copy_alias(a, fresh) == a
copy(a, fresh) == fresh

GroupLabels == <<"A", "B">>

\* groupby('group')['Churn_flag'].agg(total='count', churned='sum')
total_sum(flags) == sum(flags)
total(flags) == countnum(flags)
churned(flags) == sum(flags)

group_agg(f) ==
    LET present(g) == g \in keys(f, "group")
        ks == SelectSeq(GroupLabels, present)
    IN  [j \in 1..Len(ks) |->
            LET flags == Series(group(f, "group", ks[j]), FlagColumn)
            IN  [group |-> ks[j],
                 total |-> total(flags),
                 churned |-> churned(flags),
                 rate |-> truediv(churned(flags), total(flags))]]

\* Cell 9: the month-to-month rows, copied; one label per row drawn by
\* np.random.choice (unseeded: any labelling); the baseline table
Assign ==
    /\ pc = "assign"
    /\ LET sub == getitem(df, [i \in Index(df) |->
                                  df.rows[i]["Contract"] = "Month-to-month"])
           a == copy(ref.df, MTM)
       IN  \E choice \in [Index(sub) -> {GroupLabels[1], GroupLabels[2]}] :
              LET m == setitem(sub, "group", choice)
                  g == group_agg(m)
              IN  /\ heap' = [heap EXCEPT ![a] = m]
                  /\ ref' = [ref EXCEPT !.mtm = a]
                  /\ IF raises([j \in DOMAIN g |-> g[j].rate])
                     THEN /\ UNCHANGED grouped
                          /\ Finish("assign", "ZeroDivisionError")
                     ELSE /\ grouped' = g
                          /\ Finish("assign", "none")
    /\ UNCHANGED <<source, cohort_data, funnel, grouped_effect, ztest, y,
                   converged>>

\* mtm_effect.loc[mtm_effect['group'] == 'B', 'Churn_flag'] = 0
treat_nobody(f) == f
treat_everybody(f) ==
    Frame(f.columns, [i \in Index(f) |-> [f.rows[i] EXCEPT ![FlagColumn] = 0]])
treat(f) ==
    Frame(f.columns,
          [i \in Index(f) |-> IF f.rows[i]["group"] = "B"
                              THEN [f.rows[i] EXCEPT ![FlagColumn] = 0]
                              ELSE f.rows[i]])

\* Cell 10: the treatment is written into a copy of mtm; the table again
Effect ==
    /\ pc = "effect"
    /\ LET a == copy(ref.mtm, MTM_EFFECT)
           e == treat(heap[ref.mtm])
           g == group_agg(e)
       IN  /\ heap' = [heap EXCEPT ![a] = e]
           /\ ref' = [ref EXCEPT !.mtm_effect = a]
           /\ IF raises([j \in DOMAIN g |-> g[j].rate])
              THEN /\ UNCHANGED grouped_effect
                   /\ Finish("effect", "ZeroDivisionError")
              ELSE /\ grouped_effect' = g
                   /\ Finish("effect", "none")
    /\ UNCHANGED <<source, cohort_data, funnel, grouped, ztest, y, converged>>

\* proportions_ztest(count, nobs), value=None, two-sided, pooled variance:
\*   prop = count / nobs;  diff = prop[0] - prop[1]
\*   p_pooled = sum(count) / sum(nobs);  nobs_fact = sum(1 / nobs)
\*   z = diff / sqrt(p_pooled * (1 - p_pooled) * nobs_fact)
\* One sample without a value raises ValueError, no sample or more than two
\* NotImplementedError.  The statistic is kept exactly, as its sign and its
\* square; a zero variance gives 0/0, NaN.
sgn(x) == IF x > 0 THEN 1 ELSE IF x < 0 THEN -1 ELSE 0
zstat(cnt, nobs) ==
    LET d == cnt[1] * nobs[2] - cnt[2] * nobs[1]
        c == cnt[1] + cnt[2]
        n == nobs[1] + nobs[2]
        \* diff = d / (n1 n2),  variance = c (n - c) / (n n1 n2)
    IN  IF nobs[1] = 0 \/ nobs[2] = 0 \/ c * (n - c) = 0
        THEN [sign |-> 0, sq |-> NaNRate, ran |-> TRUE]
        ELSE [sign |-> sgn(d),
              sq |-> truediv(d * d * n, nobs[1] * nobs[2] * c * (n - c)),
              ran |-> TRUE]
proportions_ztest(cnt, nobs) ==
    IF Len(cnt) = 1 THEN [err |-> "ValueError", z |-> NoTest]
    ELSE IF Len(cnt) # 2 THEN [err |-> "NotImplementedError", z |-> NoTest]
    ELSE [err |-> "none", z |-> zstat(cnt, nobs)]

\* Cell 11: the z-test on the post-treatment table's columns, in row order
ZTest ==
    /\ pc = "ztest"
    /\ LET cnt == [j \in DOMAIN grouped_effect |-> grouped_effect[j].churned]
           nobs == [j \in DOMAIN grouped_effect |-> grouped_effect[j].total]
           r == proportions_ztest(cnt, nobs)
       IN  /\ ztest' = r.z
           /\ Finish("ztest", r.err)
    /\ UNCHANGED <<source, heap, ref, cohort_data, funnel, grouped,
                   grouped_effect, y, converged>>

\* -------------------------------------------------------------- model cell
\* train_test_split(test_size=0.2): ceil(0.2 n) test rows, the rest train
n_test(n) == (n + 4) \div 5
classes(lab, idx) == {lab[i] : i \in idx}

\* LogisticRegression(max_iter=1000).fit: reaching max_iter is a
\* ConvergenceWarning (filtered by the imports cell), not an exception
fit_outcomes == {"converged", "max_iter reached"}

\* Cell 12: y is df's flag column.  The split is a fixed (random_state=42)
\* but unspecified permutation: any test set of the right size.  An empty
\* train set, a one-class train set (fit) and a one-class test set
\* (roc_auc_score) raise ValueError.
Model ==
    /\ pc = "model"
    /\ IF ~({"SeniorCitizen", "tenure", "MonthlyCharges"} \subseteq df.columns)
       THEN /\ UNCHANGED <<y, converged>>
            /\ Finish("model", "KeyError")
       ELSE LET lab == Series(df, FlagColumn)
                n == nrows(df)
            IN  /\ y' = lab
                /\ IF n - n_test(n) = 0
                   THEN /\ UNCHANGED converged
                        /\ Finish("model", "ValueError")
                   ELSE \E test \in {t \in SUBSET Index(df) :
                                        Cardinality(t) = n_test(n)} :
                           IF Cardinality(classes(lab, Index(df) \ test)) < 2
                           THEN /\ UNCHANGED converged
                                /\ Finish("model", "ValueError")
                           ELSE \E c \in fit_outcomes :
                                   /\ converged' = c
                                   /\ Finish("model",
                                        IF Cardinality(classes(lab, test)) < 2
                                        THEN "ValueError" ELSE "none")
    /\ UNCHANGED <<source, heap, ref, cohort_data, funnel, grouped,
                   grouped_effect, ztest>>

Next == Imports \/ Load \/ Info \/ Churn \/ Cohort \/ CohortPlot \/ Funnel
        \/ FunnelPlot \/ Assign \/ Effect \/ ZTest \/ Model

Spec == Init /\ [][Next]_vars

\* ================================================================== claims
\* cell c has run to its end
Done(c) == \E i \in DOMAIN ran : ran[i] = c /\ (i < Len(ran) \/ error = "none")
\* cell c has been started
Started(c) == \E i \in DOMAIN ran : ran[i] = c

Loaded == source.frame
IsNaNRate(r) == r = NaNRate
InUnitInterval(r) == r.den > 0 /\ 0 <= r.num /\ r.num <= r.den
MonthToMonth(f) == {i \in Index(f) : f.rows[i]["Contract"] = "Month-to-month"}
Members(f, g) == {i \in Index(f) : f.rows[i]["group"] = g}
RowsOf(tbl, g) == {j \in DOMAIN tbl : tbl[j].group = g}
InCohort(f, m) == {i \in Index(f) : f.rows[i]["signup_month"] = m}

\* C1: after the cohort cell, every cohort row with total_customers > 0 has
\* retained <= total_customers and a retention_rate in [0, 1] equal to
\* retained / total_customers, retained being the number of records of that
\* signup month whose churn flag is 0.
C1_CohortRatesInRange ==
    Done("cohort") =>
        \A j \in DOMAIN cohort_data :
            LET r == cohort_data[j]
            IN  r.total_customers > 0 =>
                  /\ r.retained =
                       Cardinality({i \in InCohort(df, r.signup_month) :
                                       df.rows[i][FlagColumn] = 0})
                  /\ r.retained <= r.total_customers
                  /\ InUnitInterval(r.retention_rate)
                  /\ r.retention_rate.num * r.total_customers
                       = r.retained * r.retention_rate.den

\* C2 as stated: after the funnel cell, for every input table, every step
\* has Count <= total_signed_up and a Conversion in [0, 1].
C2_FunnelInRange_AnyTable ==
    Done("funnel") =>
        \A j \in DOMAIN funnel :
            /\ funnel[j].Count <= funnel[1].Count
            /\ InUnitInterval(funnel[j].Conversion)

\* C2 amended: after the funnel cell, for every input table with at least
\* one record, every step has Count <= total_signed_up and a Conversion in
\* [0, 1]; for the empty table every Conversion is NaN.
C2_FunnelInRange ==
    Done("funnel") =>
        /\ Len(funnel) = 4
        /\ funnel[1].Count = nrows(df)
        /\ \A j \in DOMAIN funnel :
              /\ funnel[j].Count <= funnel[1].Count
              /\ IF nrows(df) > 0 THEN InUnitInterval(funnel[j].Conversion)
                                  ELSE IsNaNRate(funnel[j].Conversion)

C2_Witness ==
    /\ Done("funnel")
    /\ nrows(df) > 0
    /\ 0 < funnel[2].Count /\ funnel[2].Count < funnel[1].Count
    /\ funnel[3].Count > funnel[2].Count

\* C3: after the treatment effect is applied, for every group assignment,
\* group B's churned count is 0 and its rate is 0.
C3_TreatedGroupZero ==
    Done("effect") =>
        /\ \A j \in RowsOf(grouped_effect, "B") :
              /\ grouped_effect[j].churned = 0
              /\ grouped_effect[j].rate = [num |-> 0, den |-> 1]
        /\ \A i \in Members(mtm_effect, "B") : mtm_effect.rows[i][FlagColumn] = 0

C3_Witness ==
    /\ Done("effect")
    /\ RowsOf(grouped_effect, "B") # {}
    /\ \E j \in RowsOf(grouped, "B") : grouped[j].churned > 0

RECURSIVE SumTotals(_)
SumTotals(tbl) == IF Len(tbl) = 0 THEN 0 ELSE Head(tbl).total + SumTotals(Tail(tbl))

C5_NoZeroDivisionAbort ==
    /\ error # "ZeroDivisionError"
    /\ Done("cohort") =>
          \A j \in DOMAIN cohort_data :
              InCohort(df, cohort_data[j].signup_month) # {}
    /\ (Started("funnel") /\ FlagColumn \in df.columns /\ nrows(df) = 0) =>
          /\ Done("funnel")
          /\ \A j \in DOMAIN funnel : IsNaNRate(funnel[j].Conversion)
    /\ Done("assign") =>
          \A g \in {"A", "B"} : Members(mtm, g) = {} => RowsOf(grouped, g) = {}
    /\ Done("effect") =>
          \A g \in {"A", "B"} :
              Members(mtm_effect, g) = {} => RowsOf(grouped_effect, g) = {}

C5_Witness ==
    /\ Done("effect")
    /\ nrows(df) = 0
    /\ Len(funnel) = 4
    /\ grouped_effect = <<>>

IsPrefix(s, t) == Len(s) <= Len(t) /\ \A i \in DOMAIN s : s[i] = t[i]

\* The stage a cell belongs to (the imports cell precedes the six stages)
StageOf(c) ==
    CASE c = "imports" -> 0
      [] c = "load" -> 1
      [] c \in {"info", "churn"} -> 2
      [] c \in {"cohort", "cohort_plot"} -> 3
      [] c \in {"funnel", "funnel_plot"} -> 4
      [] c \in {"assign", "effect", "ztest"} -> 5
      [] c = "model" -> 6

RunsInOrder ==
    /\ IsPrefix(ran, Cells)
    /\ \A i, j \in DOMAIN ran : i < j => StageOf(ran[i]) <= StageOf(ran[j])
    /\ pc = "done" => ran = Cells
    /\ error # "none" <=> pc = "aborted"
    /\ pc = "aborted" => ~ENABLED Next
    /\ pc \notin {"done", "aborted"} => ran = SubSeq(Cells, 1, CellIndex(pc) - 1)

\* C6 as stated: the stages run once each in the fixed order; a run
\* completes all six or aborts at the first unrecoverable error, solver
\* non-convergence included; after an abort nothing runs.
C6_AbortsOnNonConvergence ==
    /\ RunsInOrder
    /\ converged = "max_iter reached" => pc = "aborted"

\* C6 amended: the stages run once each in the fixed order; a run completes
\* all six or aborts at the first raised exception, after which nothing
\* runs; solver non-convergence raises nothing and the run completes.
C6_RunsOnceInOrder ==
    /\ RunsInOrder
    /\ (converged = "max_iter reached" /\ error = "none") => pc = "done"

C6_Witness ==
    /\ pc = "done"
    /\ converged = "max_iter reached"
    /\ ran = Cells

\* C7: the shared table keeps its records and the values of its loaded
\* columns through every stage, the flag column stays the image of the
\* loaded Churn column although the experiment zeroes group B's flags, and
\* the model's labels are those flags.
C7_SharedTableOnlyGrows ==
    ref.df # 0 =>
        /\ nrows(df) = nrows(Loaded)
        /\ Loaded.columns \subseteq df.columns
        /\ \A i \in Index(df) : \A c \in Loaded.columns :
              df.rows[i][c] = Loaded.rows[i][c]
        /\ FlagColumn \in df.columns =>
              \A i \in Index(df) :
                  df.rows[i][FlagColumn] = churn_map(Loaded.rows[i]["Churn"])
        /\ Started("model") =>
              y = [i \in Index(Loaded) |-> churn_map(Loaded.rows[i]["Churn"])]

C7_Witness ==
    /\ Started("model")
    /\ Len(y) > 0
    /\ \E i \in Members(mtm_effect, "B") :
          mtm.rows[i][FlagColumn] = 1 /\ mtm_effect.rows[i][FlagColumn] = 0
    /\ \E i \in Index(df) : y[i] = 1

\* C8: each funnel Count is the number of records of the whole table that
\* satisfy that step's own predicate, Conversion is Count / total_signed_up,
\* and the counts need not decrease from step to step.
C8_FunnelStepsIndependent ==
    Done("funnel") =>
        LET n == nrows(Loaded)
            R == Loaded.rows
            expect == <<n,
                Cardinality({i \in 1..n : R[i]["InternetService"] # "No"}),
                Cardinality({i \in 1..n : R[i]["StreamingTV"] = "Yes"
                                          \/ R[i]["StreamingMovies"] = "Yes"}),
                Cardinality({i \in 1..n : R[i]["Churn"] = "No"})>>
        IN  \A j \in 1..4 :
              /\ funnel[j].Step = Steps[j]
              /\ funnel[j].Count = expect[j]
              /\ n > 0 => /\ funnel[j].Conversion.den > 0
                          /\ funnel[j].Conversion.num * n
                               = expect[j] * funnel[j].Conversion.den

C8_Witness ==
    /\ Done("funnel")
    /\ funnel[3].Count > funnel[2].Count
    /\ funnel[4].Count > funnel[3].Count

\* the churned records of the Month-to-month subset before the treatment
PreChurned == Cardinality({i \in Index(mtm) : mtm.rows[i][FlagColumn] = 1})
\* two-sided p < 0.05: z squared above the squared 97.5% normal quantile,
\* 1.959964^2 = 3.84146 (an infinite statistic has p = 0, NaN has p = NaN)
Significant(zt) ==
    /\ zt.ran
    /\ zt.sq # NaNRate
    /\ (zt.sq.den = 0 \/ zt.sq.num * 100000 > 384146 * zt.sq.den)

====
